---- MODULE Spec2Model ----
(***************************************************************************)
(* A model of xml2mw: the markup translation engine of                     *)
(* src/xml2mw/transform.py (to_mw and its helpers), the page filter of     *)
(* src/read_xml.py (filter_most_recent), its entry point read, and the     *)
(* page tree of src/xml2mw/sitemap.py (build_sitemap).                     *)
(*                                                                         *)
(* Text is a sequence of characters; a character is a one-character        *)
(* string.  Characters that Python's re module produces from an escape in  *)
(* a replacement template and that have no printable form are named        *)
(* ("BEL", "NUL", ...).                                                    *)
(***************************************************************************)
EXTENDS Integers, Sequences, FiniteSets, TLC

VARIABLES
    body_content,   \* to_mw: the argument
    pieces,         \* to_mw: body_content.split('\n')
    idx,            \* to_mw: position of the for loop in pieces (1-based)
    token,          \* _transform_line_start: the CONFLUENCE_MU key that matched, or NoToken
    rest,           \* _transform_line_start: the local `rest`
    line,           \* the line being rewritten (`possibly_changed` / `line`)
    matches,        \* _transform_inner_line: the list re.findall returned
    mi,             \* _transform_inner_line: position of the for loop in matches
    result,         \* _transform_inner_line: the local `result`
    out,            \* the lines the generator has yielded so far
    substitutions,  \* how often line 82 has run in this call of _transform_inner_line
    pc,             \* where the generator stands
    pages,          \* filter_most_recent: the argument, in iteration order
    recent_pages,   \* filter_most_recent: the local dict, identifier -> record
    fi,             \* filter_most_recent: position of the for loop in pages
    filtered,       \* filter_most_recent: the returned mapping, in iteration order
    fpc,            \* where filter_most_recent stands
    all_pages,      \* build_sitemap: the argument `pages`, in iteration order
    toplevel,       \* build_sitemap: the values of the local dict `toplevel`
    ti,             \* build_sitemap: position of the for loop in toplevel
    stack,          \* the calls of _create_node in progress, innermost last
    nodes,          \* the Node objects made so far, in the order they were made
    spc,            \* where build_sitemap stands
    suspended,      \* two generators: the frame of the generator that is not running
    running,        \* two generators: which of them the to_mw variables belong to
    tables,         \* two generators: the rule tables of the module
    xml,            \* read: the file at `filepath`
    root,           \* read: the local `root`
    read_pages,     \* read: the local `pages`
    di,             \* denormalize: position of the for loop in pages
    returned,       \* read: the value returned
    rpc             \* where read stands

mwvars == <<body_content, pieces, idx, token, rest, line, matches, mi, result, out,
            substitutions, pc>>
fvars == <<pages, recent_pages, fi, filtered, fpc>>
svars == <<all_pages, toplevel, ti, stack, nodes, spc>>
gvars == <<suspended, running, tables>>
rvars == <<xml, root, read_pages, di, returned, rpc>>
vars == <<body_content, pieces, idx, token, rest, line, matches, mi, result, out,
          substitutions, pc,
          pages, recent_pages, fi, filtered, fpc,
          all_pages, toplevel, ti, stack, nodes, spc,
          suspended, running, tables,
          xml, root, read_pages, di, returned, rpc>>

-----------------------------------------------------------------------------
(* Text helpers: what the str methods used by the code do.                 *)

Drop(s, n) == SubSeq(s, n + 1, Len(s))

Take(s, n) == SubSeq(s, 1, n)

Reverse(s) == [i \in 1..Len(s) |-> s[Len(s) + 1 - i]]

\* str.startswith
StartsWith(s, p) == Len(p) <= Len(s) /\ Take(s, Len(p)) = p

Chars(s) == {s[i] : i \in 1..Len(s)}

\* str.lstrip(chars): removes every leading character that is in the SET of
\* characters of the argument, for as long as there is one.
RECURSIVE LStrip(_, _)
LStrip(s, chars) ==
    IF s # <<>> /\ Head(s) \in chars THEN LStrip(Tail(s), chars) ELSE s

\* str.split(sep) for a one-character sep: always at least one piece.
RECURSIVE SplitFrom(_, _, _)
SplitFrom(s, sep, cur) ==
    IF s = <<>> THEN <<cur>>
    ELSE IF Head(s) = sep THEN <<cur>> \o SplitFrom(Tail(s), sep, <<>>)
    ELSE SplitFrom(Tail(s), sep, Append(cur, Head(s)))

Split(s, sep) == SplitFrom(s, sep, <<>>)

-----------------------------------------------------------------------------
(* The rule tables.                                                        *)

Slot == "{}"

\* MARKUP: tag -> template; the element Slot is the replacement field.
MARKUP ==
    [h1    |-> <<"=", " ", Slot, " ", "=">>,
     h2    |-> <<"=", "=", " ", Slot, " ", "=", "=">>,
     h3    |-> <<"=", "=", "=", " ", Slot, " ", "=", "=", "=">>,
     h4    |-> <<"=", "=", "=", "=", " ", Slot, " ", "=", "=", "=", "=">>,
     hr    |-> <<"-", "-", "-", "-", Slot>>,
     uli   |-> <<"*", " ", Slot>>,
     ulii  |-> <<"*", "*", " ", Slot>>,
     uliii |-> <<"*", "*", "*", " ", Slot>>,
     oli   |-> <<"#", " ", Slot>>,
     olii  |-> <<"#", "#", " ", Slot>>,
     oliii |-> <<"#", "#", "#", " ", Slot>>]

\* CONFLUENCE_MU in the order the dict literal gives its items.
CONFLUENCE_MU ==
    << <<<<"h", "1", ".", " ">>, "h1">>,
       <<<<"h", "2", ".", " ">>, "h2">>,
       <<<<"h", "3", ".", " ">>, "h3">>,
       <<<<"h", "4", ".", " ">>, "h4">>,
       <<<<"*", " ">>, "uli">>,
       <<<<"-", " ">>, "uli">>,
       <<<<"-", "-", " ">>, "ulii">>,
       <<<<"-", "-", "-", " ">>, "uliii">> >>

Q == "'"

\* EMPHASIS: delimiter run -> target delimiter.
EmphasisKeys == {<<"*">>, <<"_">>, <<"*", "_">>, <<"_", "*">>}

EMPHASIS ==
    [k \in EmphasisKeys |->
        CASE k = <<"*">> -> <<Q, Q, Q>>
          [] k = <<"_">> -> <<Q, Q>>
          [] k = <<"*", "_">> -> <<Q, Q, Q, Q, Q>>
          [] k = <<"_", "*">> -> <<Q, Q, Q, Q, Q>>]

-----------------------------------------------------------------------------
(* _transform_line_start and __get_markup.                                 *)

\* str.format with one positional argument on a template with one field.
RECURSIVE Format(_, _)
Format(template, content) ==
    IF template = <<>> THEN <<>>
    ELSE (IF Head(template) = Slot THEN content ELSE <<Head(template)>>)
         \o Format(Tail(template), content)

\* __get_markup: MARKUP[tag].format(content), '' on KeyError.
get_markup(tag, content) ==
    IF tag \in DOMAIN MARKUP THEN Format(MARKUP[tag], content) ELSE <<>>

NoToken == <<>>

\* s holds p somewhere (the operator `in` of str).
Contains(s, p) == \E i \in 0..(Len(s) - Len(p)) : SubSeq(s, i + 1, i + Len(p)) = p

\* FirstRule as it would be with `confluence in line` for line.startswith:
\* the first key found anywhere in the line.
RECURSIVE FirstRuleAnywhere(_, _)
FirstRuleAnywhere(l, k) ==
    IF k > Len(CONFLUENCE_MU) THEN 0
    ELSE IF Contains(l, CONFLUENCE_MU[k][1]) THEN k
    ELSE FirstRuleAnywhere(l, k + 1)

\* The position in CONFLUENCE_MU of the first key the line starts with, 0 if none.
RECURSIVE FirstRule(_, _)
FirstRule(l, k) ==
    IF k > Len(CONFLUENCE_MU) THEN 0
    ELSE IF StartsWith(l, CONFLUENCE_MU[k][1]) THEN k
    ELSE FirstRule(l, k + 1)

\* The `rest` of line 63: line.lstrip(confluence).
line_rest(l, confluence) == LStrip(l, Chars(confluence))

\* _transform_line_start: [token, rest, line] as the function leaves them.
transform_line_start(l) ==
    LET k == FirstRule(l, 1) IN
    IF k = 0 THEN [token |-> NoToken, rest |-> <<>>, line |-> l]
    ELSE LET confluence == CONFLUENCE_MU[k][1]
             tag == CONFLUENCE_MU[k][2]
             r == line_rest(l, confluence)
             new == get_markup(tag, r)
         IN  [token |-> confluence, rest |-> r,
              \* `result or line` with result = line = new
              line |-> new]

-----------------------------------------------------------------------------
(* The emphasis pattern of line 72, matched the way Python's backtracking   *)
(* matcher matches it.  Its three groups: a greedy run of one or more      *)
(* delimiter characters (star, underscore); one non-whitespace character   *)
(* followed by a greedy run of non-delimiter characters; a greedy run of   *)
(* one or more delimiter characters.                                       *)

IsDelim(c) == c \in {"*", "_"}

\* \s of a str pattern: the whitespace characters a line can hold here.
Whitespace == {" ", "\t", "\n", "\r", "\f", "VT"}

IsSpace(c) == c \in Whitespace

\* Length of the longest run of delimiter characters from position i.
RECURSIVE DelimRun(_, _)
DelimRun(l, i) ==
    IF i <= Len(l) /\ IsDelim(l[i]) THEN 1 + DelimRun(l, i + 1) ELSE 0

\* Length of the longest run of non-delimiter characters from position i.
RECURSIVE PlainRun(_, _)
PlainRun(l, i) ==
    IF i <= Len(l) /\ ~IsDelim(l[i]) THEN 1 + PlainRun(l, i + 1) ELSE 0

\* The opening run of length n at i can be completed to a match: the next
\* character is no whitespace, and the greedy run of non-delimiters behind it
\* is followed by a delimiter (giving back characters of that run never
\* helps: what follows is then no delimiter).
OpensAt(l, i, n) ==
    /\ i + n <= Len(l)
    /\ ~IsSpace(l[i + n])
    /\ i + n + 1 + PlainRun(l, i + n + 1) <= Len(l)

NoMatch == [at |-> 0, start |-> <<>>, content |-> <<>>, end |-> <<>>]

\* The match starting exactly at i, or NoMatch: the greedy opening run gives
\* back one character at a time until the remainder matches.
MatchAt(l, i) ==
    LET lens == {n \in 1..DelimRun(l, i) : OpensAt(l, i, n)} IN
    IF lens = {} THEN NoMatch
    ELSE LET n == CHOOSE x \in lens : \A y \in lens : y <= x
             c == i + n
             e == c + 1 + PlainRun(l, c + 1)
         IN  [at |-> i,
              start |-> SubSeq(l, i, c - 1),
              content |-> SubSeq(l, c, e - 1),
              end |-> SubSeq(l, e, e + DelimRun(l, e) - 1)]

MatchLen(m) == Len(m.start) + Len(m.content) + Len(m.end)

\* re.search from position i: the leftmost match.
RECURSIVE Search(_, _)
Search(l, i) ==
    IF i > Len(l) THEN NoMatch
    ELSE LET m == MatchAt(l, i) IN
         IF m.at # 0 THEN m ELSE Search(l, i + 1)

\* re.findall: the non-overlapping matches from left to right, each as the
\* tuple of its three groups.
RECURSIVE FindAllFrom(_, _)
FindAllFrom(l, i) ==
    LET m == Search(l, i) IN
    IF m.at = 0 THEN <<>>
    ELSE <<[start |-> m.start, content |-> m.content, end |-> m.end]>>
         \o FindAllFrom(l, m.at + MatchLen(m))

FindAll(l) == FindAllFrom(l, 1)

-----------------------------------------------------------------------------
(* re.sub(pattern, repl, line, count=1): repl is a TEMPLATE, in which a    *)
(* backslash starts an escape (re's parse_template).                       *)

Digits == {"0", "1", "2", "3", "4", "5", "6", "7", "8", "9"}

AsciiLetters ==
    {"a", "b", "c", "d", "e", "f", "g", "h", "i", "j", "k", "l", "m",
     "n", "o", "p", "q", "r", "s", "t", "u", "v", "w", "x", "y", "z",
     "A", "B", "C", "D", "E", "F", "G", "H", "I", "J", "K", "L", "M",
     "N", "O", "P", "Q", "R", "S", "T", "U", "V", "W", "X", "Y", "Z"}

\* re's ESCAPES, as far as a template uses them: escape letter -> character.
EscapeChar(c) ==
    CASE c = "a" -> "BEL"
      [] c = "b" -> "BS"
      [] c = "f" -> "\f"
      [] c = "n" -> "\n"
      [] c = "r" -> "\r"
      [] c = "t" -> "\t"
      [] c = "v" -> "VT"
      [] c = "\\" -> "\\"

Escapes == {"a", "b", "f", "n", "r", "t", "v", "\\"}

DigitValue(c) ==
    CASE c = "0" -> 0 [] c = "1" -> 1 [] c = "2" -> 2 [] c = "3" -> 3
      [] c = "4" -> 4 [] c = "5" -> 5 [] c = "6" -> 6 [] c = "7" -> 7
      [] c = "8" -> 8 [] c = "9" -> 9

\* The pattern has three groups; group 0 is the whole match.
Groups == 3

Group(m, g) ==
    CASE g = 0 -> m.start \o m.content \o m.end
      [] g = 1 -> m.start
      [] g = 2 -> m.content
      [] g = 3 -> m.end

TemplateError == [ok |-> FALSE, text |-> <<>>]

\* The expansion of template t from position p for match m; TemplateError
\* when parse_template raises re.error.  An escape that names a character by
\* its octal code is outside the modelled characters and is kept as the
\* character "OCT".
RECURSIVE Expand(_, _, _)
Expand(t, p, m) ==
    IF p > Len(t) THEN [ok |-> TRUE, text |-> <<>>]
    ELSE IF t[p] # "\\" THEN
        LET r == Expand(t, p + 1, m) IN
        IF r.ok THEN [ok |-> TRUE, text |-> <<t[p]>> \o r.text] ELSE TemplateError
    ELSE IF p = Len(t) THEN TemplateError            \* bad escape (end of pattern)
    ELSE LET c == t[p + 1]
             Then(txt, q) ==
                 LET r == Expand(t, q, m) IN
                 IF r.ok THEN [ok |-> TRUE, text |-> txt \o r.text] ELSE TemplateError
         IN  CASE c = "g" ->
                    \* \g<number>: only a group number can name a group here
                    IF /\ p + 4 <= Len(t)
                       /\ t[p + 2] = "<"
                       /\ t[p + 3] \in Digits
                       /\ DigitValue(t[p + 3]) <= Groups
                       /\ t[p + 4] = ">"
                    THEN Then(Group(m, DigitValue(t[p + 3])), p + 5)
                    ELSE TemplateError
               [] c = "0" -> Then(<<"OCT">>,
                                  IF p + 2 <= Len(t) /\ t[p + 2] \in Digits \ {"8", "9"}
                                  THEN (IF p + 3 <= Len(t) /\ t[p + 3] \in Digits \ {"8", "9"}
                                        THEN p + 4 ELSE p + 3)
                                  ELSE p + 2)
               [] c \in Digits \ {"0"} ->
                    IF p + 2 <= Len(t) /\ t[p + 2] \in Digits
                    THEN \* two digits: an octal code when a third octal digit
                         \* follows, otherwise a group number above Groups
                         IF /\ c \notin {"8", "9"} /\ t[p + 2] \notin {"8", "9"}
                            /\ p + 3 <= Len(t) /\ t[p + 3] \in Digits \ {"8", "9"}
                         THEN (IF DigitValue(c) > 3 THEN TemplateError
                               ELSE Then(<<"OCT">>, p + 4))
                         ELSE TemplateError
                    ELSE IF DigitValue(c) <= Groups
                         THEN Then(Group(m, DigitValue(c)), p + 2)
                         ELSE TemplateError           \* invalid group reference
               [] c \in Escapes -> Then(<<EscapeChar(c)>>, p + 2)
               [] c \in AsciiLetters \ (Escapes \cup {"g"}) -> TemplateError   \* bad escape
               [] OTHER -> Then(<<"\\", c>>, p + 2)

\* re.sub(emphasis_pattern, repl, l, count=1): the template is parsed first
\* (an error is raised whether or not the pattern matches); then the FIRST
\* match of the pattern in l, wherever it is, is replaced by the expansion.
Sub(repl, l) ==
    LET m == Search(l, 1)
        x == Expand(repl, 1, IF m.at = 0 THEN NoMatch ELSE m)
    IN  IF ~x.ok THEN [ok |-> FALSE, line |-> l]
        ELSE IF m.at = 0 THEN [ok |-> TRUE, line |-> l]
        ELSE [ok |-> TRUE,
              line |-> Take(l, m.at - 1) \o x.text \o Drop(l, m.at - 1 + MatchLen(m))]

\* Replacement with the source delimiter '*' put in place of the target one.
ReplacementKeepingDelimiter(markup, content) == <<"*">> \o content \o <<"*">>

\* '{}{}{}'.format(markup, content, markup) of line 81.
Replacement(markup, content) == markup \o content \o markup

\* The test of line 77.
DelimitersAgree(start, end) == start = end \/ start = Reverse(end)

-----------------------------------------------------------------------------
(* The bodies to_mw is run on.                                             *)

MaxContent == 3
MaxRun == 2
MaxLines == 3
MaxItem == 2

Words(A, n) == UNION {[1..k -> A] : k \in 0..n}

Alphabet == {"a", "h", " ", "-", "*", "_", "\\"}

Tokens == {CONFLUENCE_MU[k][1] : k \in 1..Len(CONFLUENCE_MU)}

\* Line starts for which CONFLUENCE_MU has no key.
OtherStarts ==
    {<<>>, <<"h", "5", ".", " ">>, <<"#", " ">>, <<"#", "#", " ">>, <<"#", "*", " ">>,
     <<"*", "*", " ">>, <<"*", "*", "*", " ">>}

\* One line: a token (or none) at the start, then any short text.
TokenLines ==
    {t \o w : t \in Tokens \cup OtherStarts, w \in Words(Alphabet, MaxContent)}

\* One line with a token after other text.
InlineTokenLines ==
    {<<"a", " ">> \o t \o w : t \in Tokens \cup OtherStarts, w \in {<<>>, <<"a">>}}

Runs == Words({"*", "_"}, MaxRun) \ {<<>>}

SpanContents == {<<"a">>, <<"a", " ", "h">>, <<"\\", "h">>, <<"\\", "\\">>, <<"\\", "1">>}

Span(o, c, e) == o \o c \o e

\* One line with one candidate span somewhere in it.
SpanLines ==
    {pre \o Span(o, c, e) \o post :
        pre \in {<<>>, <<"a", " ">>, <<"-", " ">>}, o \in Runs, c \in SpanContents, e \in Runs,
        post \in {<<>>, <<" ", "a">>, <<",">>}}

\* One line with two candidate spans, the second one well-formed.
TwoSpanLines ==
    UNION {{Span(o1, <<"a">>, e1) \o <<" ">> \o Span(o2, <<"h">>, e2) :
                o1 \in Runs, e1 \in Runs, e2 \in {o2, Reverse(o2)}} : o2 \in Runs}

\* The text between the brackets of an internal link: a page name, with or
\* without an anchor.
LinkTargets == {<<"P">>, <<"P", "g">>, <<"P", "#", "n">>}

Link(t) == <<"[">> \o t \o <<"]">>

LinkBefore == {<<>>, <<"a", " ">>}

LinkAfter == {<<>>, <<" ", "a">>, <<".">>}

\* One line with an internal link at its start, in its middle or at its end.
LinkLines == {pre \o Link(t) \o post : pre \in LinkBefore, t \in LinkTargets, post \in LinkAfter}

MaxSpans == 2

\* The delimiter pairs the test of line 77 accepts and EMPHASIS has an entry for.
MatchingDelims ==
    {<<k, k>> : k \in EmphasisKeys} \cup {<<k, Reverse(k)>> : k \in EmphasisKeys}

\* Contents without a delimiter that start with a non-whitespace character.
CleanContents == {<<"a">>, <<"\\", "h">>}

\* The text between two spans of a line.
Separators == {<<>>, <<" ">>}

\* One to MaxSpans spans: the delimiters and the content of each.
SpanLists ==
    UNION {[1..k -> [delims : MatchingDelims, content : CleanContents]] : k \in 1..MaxSpans}

RECURSIVE JoinText(_, _)
JoinText(ts, sep) ==
    IF ts = <<>> THEN <<>>
    ELSE IF Len(ts) = 1 THEN ts[1]
    ELSE ts[1] \o sep \o JoinText(Tail(ts), sep)

\* The line made of the spans ss with the text sep between them.
SpanSequence(ss, sep) ==
    JoinText([i \in 1..Len(ss) |-> Span(ss[i].delims[1], ss[i].content, ss[i].delims[2])], sep)

\* Lines of one to MaxSpans well-formed spans.
SpanSequenceLines == {SpanSequence(ss, sep) : ss \in SpanLists, sep \in Separators}

SampleLines ==
    {<<>>, <<"a">>, <<"h", "1", ".", " ", "a">>, <<"-", " ", "a">>, <<"*", "a", "*">>,
     <<"*", "\\", "h", "*">>}

RECURSIVE Join(_, _)
Join(ls, sep) ==
    IF ls = <<>> THEN <<>>
    ELSE IF Len(ls) = 1 THEN ls[1]
    ELSE ls[1] \o <<sep>> \o Join(Tail(ls), sep)

MaxGenLines == 2

\* The lines of the bodies two generators are run on together: a heading
\* with a span that is rewritten, one whose delimiters differ and one whose
\* delimiter EMPHASIS does not have; and a span on which re.sub raises.
GenLines ==
    {<<"h", "1", ".", " ", "*", "a", "*", " ", "*", "a", "_", " ", "*", "*", "a", "*", "*">>,
     <<"*", "\\", "h", "*">>}

GenBodies == {Join(ls, "\n") : ls \in Words(GenLines, MaxGenLines) \ {<<>>}}

\* Bodies of several lines.
MultiBodies == {Join(ls, "\n") : ls \in Words(SampleLines, MaxLines)}

Repeat(c, n) == [i \in 1..n |-> c]

Depths == 1..3

\* A list item in both marker styles, one per line.
VariantBodies ==
    {Repeat("-", d) \o <<" ">> \o r \o <<"\n">> \o Repeat("*", d) \o <<" ">> \o r :
        d \in Depths, r \in Words({"a", "h", " ", "\\"}, MaxItem)}

Bodies ==
    TokenLines \cup InlineTokenLines \cup SpanLines \cup TwoSpanLines \cup MultiBodies
    \cup VariantBodies \cup LinkLines \cup SpanSequenceLines \cup GenBodies

-----------------------------------------------------------------------------
(* to_mw: the generator, one action per step of the code.                  *)

FilterIdle ==
    /\ pages = <<>>
    /\ recent_pages = <<>>
    /\ fi = 0
    /\ filtered = <<>>
    /\ fpc = "idle"

SitemapIdle ==
    /\ all_pages = <<>>
    /\ toplevel = <<>>
    /\ ti = 0
    /\ stack = <<>>
    /\ nodes = <<>>
    /\ spc = "idle"

\* The three tables as the module defines them.
RuleTables == [MARKUP |-> MARKUP, CONFLUENCE_MU |-> CONFLUENCE_MU, EMPHASIS |-> EMPHASIS]

\* No second generator.
GenIdle ==
    /\ suspended = <<>>
    /\ running = 0
    /\ tables = RuleTables

ReadIdle ==
    /\ xml = <<>>
    /\ root = <<>>
    /\ read_pages = <<>>
    /\ di = 0
    /\ returned = <<>>
    /\ rpc = "idle"

Init ==
    /\ body_content \in Bodies
    /\ pieces = <<>>
    /\ idx = 0
    /\ token = NoToken
    /\ rest = <<>>
    /\ line = <<>>
    /\ matches = <<>>
    /\ mi = 0
    /\ result = <<>>
    /\ out = <<>>
    /\ substitutions = 0
    /\ pc = "start"
    /\ FilterIdle
    /\ SitemapIdle
    /\ GenIdle
    /\ ReadIdle

\* Line 50: body_content.split('\n'), at the first next() on the generator.
SplitBody ==
    /\ pc = "start"
    /\ pieces' = Split(body_content, "\n")
    /\ idx' = 1
    /\ pc' = "fetch"
    /\ UNCHANGED <<body_content, token, rest, line, matches, mi, result, out, substitutions>>

\* Lines 50-51: the for loop takes the next piece and _transform_line_start
\* rewrites its start.
LineStart ==
    /\ pc = "fetch"
    /\ idx <= Len(pieces)
    /\ LET r == transform_line_start(pieces[idx]) IN
        /\ token' = r.token
        /\ rest' = r.rest
        /\ line' = r.line
    /\ pc' = "inner"
    /\ UNCHANGED <<body_content, pieces, idx, matches, mi, result, out, substitutions>>

\* Lines 71-75: _transform_inner_line starts: re.findall on the line as it
\* is now; the list is computed once.
FindSpans ==
    /\ pc = "inner"
    /\ matches' = FindAll(line)
    /\ mi' = 1
    /\ result' = <<>>
    /\ substitutions' = 0
    /\ pc' = "loop"
    /\ UNCHANGED <<body_content, pieces, idx, token, rest, line, out>>

Current == matches[mi]

InLoop == pc = "loop" /\ mi <= Len(matches)

\* Line 77 is false: the loop goes on with the next tuple.
SkipMismatch ==
    /\ InLoop
    /\ ~DelimitersAgree(Current.start, Current.end)
    /\ mi' = mi + 1
    /\ UNCHANGED <<body_content, pieces, idx, token, rest, line, matches, result, out, pc, substitutions>>

\* Line 80 raises KeyError: `continue`.
SkipUnknown ==
    /\ InLoop
    /\ DelimitersAgree(Current.start, Current.end)
    /\ Current.start \notin DOMAIN EMPHASIS
    /\ mi' = mi + 1
    /\ UNCHANGED <<body_content, pieces, idx, token, rest, line, matches, result, out, pc, substitutions>>

\* Lines 80-83: the replacement is built from this tuple and re.sub is run
\* on the current line.
Substitute ==
    /\ InLoop
    /\ DelimitersAgree(Current.start, Current.end)
    /\ Current.start \in DOMAIN EMPHASIS
    /\ LET r == Sub(Replacement(EMPHASIS[Current.start], Current.content), line) IN
        /\ r.ok
        /\ line' = r.line
        /\ result' = r.line
    /\ substitutions' = substitutions + 1
    /\ mi' = mi + 1
    /\ UNCHANGED <<body_content, pieces, idx, token, rest, matches, out, pc>>

\* Line 82 raises re.error, which `except KeyError` does not catch: the
\* exception leaves _transform_inner_line and to_mw; the generator is finished.
SubstituteRaises ==
    /\ InLoop
    /\ DelimitersAgree(Current.start, Current.end)
    /\ Current.start \in DOMAIN EMPHASIS
    /\ ~Sub(Replacement(EMPHASIS[Current.start], Current.content), line).ok
    /\ pc' = "raised"
    /\ UNCHANGED <<body_content, pieces, idx, token, rest, line, matches, mi, result, out, substitutions>>

\* Line 86: return result or line.
InnerReturn ==
    /\ pc = "loop"
    /\ mi > Len(matches)
    /\ line' = IF result # <<>> THEN result ELSE line
    /\ pc' = "yield"
    /\ UNCHANGED <<body_content, pieces, idx, token, rest, matches, mi, result, out, substitutions>>

\* Line 55: yield possibly_changed.
Yield ==
    /\ pc = "yield"
    /\ out' = Append(out, line)
    /\ idx' = idx + 1
    /\ pc' = "fetch"
    /\ UNCHANGED <<body_content, pieces, token, rest, line, matches, mi, result, substitutions>>

\* The for loop of line 50 is exhausted: the generator ends.
Exhausted ==
    /\ pc = "fetch"
    /\ idx > Len(pieces)
    /\ pc' = "done"
    /\ UNCHANGED <<body_content, pieces, idx, token, rest, line, matches, mi, result, out, substitutions>>

Next ==
    \/ (SplitBody /\ UNCHANGED <<fvars, svars, gvars, rvars>>)
    \/ (LineStart /\ UNCHANGED <<fvars, svars, gvars, rvars>>)
    \/ (FindSpans /\ UNCHANGED <<fvars, svars, gvars, rvars>>)
    \/ (SkipMismatch /\ UNCHANGED <<fvars, svars, gvars, rvars>>)
    \/ (SkipUnknown /\ UNCHANGED <<fvars, svars, gvars, rvars>>)
    \/ (Substitute /\ UNCHANGED <<fvars, svars, gvars, rvars>>)
    \/ (SubstituteRaises /\ UNCHANGED <<fvars, svars, gvars, rvars>>)
    \/ (InnerReturn /\ UNCHANGED <<fvars, svars, gvars, rvars>>)
    \/ (Yield /\ UNCHANGED <<fvars, svars, gvars, rvars>>)
    \/ (Exhausted /\ UNCHANGED <<fvars, svars, gvars, rvars>>)

Spec == Init /\ [][Next]_vars

-----------------------------------------------------------------------------
(* The two functions as a whole, for one line on its own.                  *)

Accepted(m) == DelimitersAgree(m.start, m.end) /\ m.start \in DOMAIN EMPHASIS

\* The for loop of lines 75-85 from tuple k on: [ok, line, result].
RECURSIVE InnerLoop(_, _, _, _)
InnerLoop(l, ms, k, res) ==
    IF k > Len(ms) THEN [ok |-> TRUE, line |-> l, result |-> res]
    ELSE IF ~Accepted(ms[k]) THEN InnerLoop(l, ms, k + 1, res)
    ELSE LET r == Sub(Replacement(EMPHASIS[ms[k].start], ms[k].content), l) IN
         IF r.ok THEN InnerLoop(r.line, ms, k + 1, r.line)
         ELSE [ok |-> FALSE, line |-> l, result |-> res]

\* _transform_inner_line: [ok, line]; ok is FALSE when it raises.
transform_inner_line(l) ==
    LET r == InnerLoop(l, FindAll(l), 1, <<>>) IN
    [ok |-> r.ok, line |-> IF r.result # <<>> THEN r.result ELSE r.line]

\* Lines 51-52 for one line.
to_mw_line(l) == transform_inner_line(transform_line_start(l).line)

-----------------------------------------------------------------------------
(* Properties of to_mw.                                                    *)

Terminal == pc \in {"done", "raised"}

HasDelim(s) == \E i \in 1..Len(s) : IsDelim(s[i])

HasBackslash(s) == \E i \in 1..Len(s) : s[i] = "\\"

StartsWithToken(l) == \E t \in Tokens : StartsWith(l, t)

\* The line is d dashes (stars), one space and the text r.
DashItem(d, r) == Repeat("-", d) \o <<" ">> \o r

StarItem(d, r) == Repeat("*", d) \o <<" ">> \o r

\* C1: when a line starts with one of the eight structural tokens, the
\* remainder _transform_line_start puts into the template is the line with
\* that token removed once from its start, and nothing more.
C1_RestIsLineWithoutToken ==
    (pc = "inner" /\ token # NoToken) =>
        /\ StartsWith(pieces[idx], token)
        /\ rest = Drop(pieces[idx], Len(token))

\* C2: a line of d dashes (d in 1..3), a space and any item text comes out of
\* to_mw starting with exactly d stars and a space.
C2_ListMarkerKept ==
    pc = "done" =>
        \A i \in 1..Len(pieces) : \A d \in Depths :
            StartsWith(pieces[i], DashItem(d, <<>>)) =>
                StartsWith(out[i], StarItem(d, <<>>))

\* What the emphasis step is meant to make of a line: text outside the
\* candidate spans and every span that is not accepted stay as they are, every
\* accepted span becomes target delimiter, content, target delimiter.
RECURSIVE ExpectedInner(_, _)
ExpectedInner(l, i) ==
    LET m == Search(l, i) IN
    IF m.at = 0 THEN Drop(l, i - 1)
    ELSE SubSeq(l, i, m.at - 1)
         \o (IF Accepted(m)
             THEN Replacement(EMPHASIS[m.start], m.content)
             ELSE Group(m, 0))
         \o ExpectedInner(l, m.at + MatchLen(m))

\* C3: in _transform_inner_line a span that is not accepted is left unchanged,
\* also when a later span of the line is accepted, and the text of an accepted
\* span replaces that span only.  Stated for lines without a backslash, where
\* the replacement template is plain text.
C3_RejectedSpanUntouched ==
    (pc = "yield" /\ ~HasBackslash(pieces[idx])) =>
        line = ExpectedInner(transform_line_start(pieces[idx]).line, 1)

\* C4: to_mw never ends in an error, whatever the characters of the body.
C4_NeverRaises == pc # "raised"

Heading(n) == <<"h", <<"1", "2", "3", "4", "5">>[n], ".", " ">>

\* C5: a line hN. (N in 1..4) followed by content becomes N equals signs, a
\* space, the content, a space, N equals signs; a line starting with h5. and
\* holding no delimiter is output unchanged.  Stated for content without
\* emphasis delimiters.
C5_HeadingWrapped ==
    pc = "done" =>
        \A i \in 1..Len(pieces) :
            /\ \A n \in 1..4 :
                (StartsWith(pieces[i], Heading(n)) /\ ~HasDelim(pieces[i])) =>
                    out[i] = Repeat("=", n) \o <<" ">> \o Drop(pieces[i], 4)
                             \o <<" ">> \o Repeat("=", n)
            /\ (StartsWith(pieces[i], Heading(5)) /\ ~HasDelim(pieces[i])) =>
                    out[i] = pieces[i]

\* The target delimiter the claim names for an opening and closing run.
WellFormed == {<<<<"*">>, <<"*">>>>, <<<<"_">>, <<"_">>>>,
               <<<<"*", "_">>, <<"_", "*">>>>, <<<<"_", "*">>, <<"*", "_">>>>}

NumDelims(s) == Cardinality({i \in 1..Len(s) : IsDelim(s[i])})

\* The line holds exactly one span, well-formed, with a content free of
\* delimiters, and no delimiter outside the span; it starts with no token.
OneCleanSpan(l) ==
    LET m == Search(l, 1) IN
    /\ ~StartsWithToken(l)
    /\ m.at # 0
    /\ <<m.start, m.end>> \in WellFormed
    /\ ~HasDelim(m.content)
    /\ NumDelims(l) = Len(m.start) + Len(m.end)

\* C6: a well-formed span around a content that starts with a non-whitespace
\* character and holds no delimiter, in a line with no other delimiter, is
\* rewritten to the content between three, two or five apostrophes, the text
\* before and after it unchanged, both orientations of the combined delimiter
\* alike.
C6_SpanRewritten ==
    Terminal =>
        \A i \in 1..Len(pieces) :
            OneCleanSpan(pieces[i]) =>
                LET m == Search(pieces[i], 1)
                    q == IF Len(m.start) = 2 THEN <<Q, Q, Q, Q, Q>>
                         ELSE IF m.start = <<"*">> THEN <<Q, Q, Q>> ELSE <<Q, Q>>
                IN  /\ i <= Len(out)
                    /\ out[i] = Take(pieces[i], m.at - 1) \o q \o m.content \o q
                                \o Drop(pieces[i], m.at - 1 + MatchLen(m))

\* C7: the dash and the star variant of a list item of depth d in 1..3, with
\* an item text holding no dash, star or underscore, give the same output.
C7_VariantsAgree ==
    pc = "done" =>
        \A i, j \in 1..Len(pieces) : \A d \in Depths :
            LET r == Drop(pieces[i], d + 1) IN
            (/\ pieces[i] = DashItem(d, r)
             /\ pieces[j] = StarItem(d, r)
             /\ Chars(r) \cap {"-", "*", "_"} = {})
                => out[i] = out[j]

Unmarked(l) == ~StartsWithToken(l) /\ ~HasDelim(l)

\* The line starts with the mixed list marker (hash, star, space) and holds
\* no other delimiter.
MixedItem(l) == StartsWith(l, <<"#", "*", " ">>) /\ ~HasDelim(Drop(l, 2))

TokenInside(l) ==
    \E k \in 2..Len(l) : \E t \in Tokens : StartsWith(Drop(l, k - 1), t)

NumNewlines(s) == Cardinality({i \in 1..Len(s) : s[i] = "\n"})

\* C9: to_mw yields one line per piece of the body split at newlines, in
\* order, line i being the rewrite of piece i alone; the empty body yields
\* the empty line.
C9_OneLinePerPiece ==
    Terminal =>
        /\ Len(out) = NumNewlines(body_content) + 1
        /\ \A i \in 1..Len(out) :
            LET r == to_mw_line(Split(body_content, "\n")[i]) IN
            r.ok /\ out[i] = r.line
        /\ (body_content = <<>> => out = << <<>> >>)

\* On a body on which no step raises, the same holds.
C9_WhenNothingRaises ==
    pc = "done" =>
        /\ Len(out) = NumNewlines(body_content) + 1
        /\ \A i \in 1..Len(out) :
            LET r == to_mw_line(Split(body_content, "\n")[i]) IN
            r.ok /\ out[i] = r.line

-----------------------------------------------------------------------------
(* Internal links.                                                         *)

\* C13: a body of one line holding an internal link '[target]' at its start,
\* in its middle or at its end comes out as one line with the link written
\* '[[target]]' and the text around it unchanged.
C13_LinkRewritten ==
    pc = "done" =>
        \A pre \in LinkBefore, t \in LinkTargets, post \in LinkAfter :
            body_content = pre \o Link(t) \o post =>
                out = <<pre \o <<"[">> \o Link(t) \o <<"]">> \o post>>

-----------------------------------------------------------------------------
(* The emphasis loop, step by step.                                        *)

\* C14: whenever _transform_inner_line replaces a span by its target
\* delimiter, the content and the target delimiter again, that content holds
\* neither '*' nor '_'.
C14_RewrittenContentHasNoDelimiter ==
    [][Substitute => ~HasDelim(Current.content)]_vars

\* The line of the spans ss with every span written in the target markup.
RewrittenSequence(ss, sep) ==
    JoinText([i \in 1..Len(ss) |->
                 Replacement(EMPHASIS[ss[i].delims[1]], ss[i].content)], sep)

\* C15: a line made of one or more spans, each with matching delimiters that
\* EMPHASIS has an entry for and a content free of '*' and '_', with text
\* free of '*' and '_' between them, comes out with every span replaced by
\* its own target delimiter around its own content, in the order of the line.
C15_EverySpanRewritten ==
    Terminal =>
        \A ss \in SpanLists, sep \in Separators :
            body_content = SpanSequence(ss, sep) =>
                out = <<RewrittenSequence(ss, sep)>>

\* The same for contents without a backslash and spans that do not touch.
C15_ApartAndWithoutBackslash ==
    Terminal =>
        \A ss \in SpanLists, sep \in Separators \ {<<>>} :
            (/\ body_content = SpanSequence(ss, sep)
             /\ ~HasBackslash(body_content))
                => out = <<RewrittenSequence(ss, sep)>>

\* C16: in a line without a backslash the tuples are those re.findall found
\* in the line as _transform_inner_line got it, the number of substitutions
\* never exceeds their number, every step of the loop moves on to the next
\* tuple, and every substitution leaves fewer '*' and '_' in the line than it
\* found.
C16_LoopConsumesDelimiters ==
    /\ []((pc \in {"loop", "yield"} /\ ~HasBackslash(pieces[idx])) =>
            /\ matches = FindAll(transform_line_start(pieces[idx]).line)
            /\ mi \in 1..(Len(matches) + 1)
            /\ substitutions <= Len(matches))
    /\ [][(pc = "loop" /\ pc' = "loop") => (mi' = mi + 1 /\ matches' = matches)]_vars
    /\ [][(Substitute /\ ~HasBackslash(pieces[idx])) =>
            NumDelims(line') < NumDelims(line)]_vars

\* C16 witness: _transform_inner_line is about to return for a line without
\* a backslash in which two candidate spans were found and two substitutions
\* were made.
C16_Witness ==
    /\ pc = "yield"
    /\ ~HasBackslash(pieces[idx])
    /\ Len(matches) = 2
    /\ substitutions = 2

-----------------------------------------------------------------------------
(* Two to_mw generators at once.  The to_mw variables are the frame of the  *)
(* generator that is running; `suspended` is the frame of the one that is  *)
(* not.  Control may pass from one to the other between any two steps.  No  *)
(* statement of to_mw or its helpers assigns to MARKUP, CONFLUENCE_MU or    *)
(* EMPHASIS or calls a method that changes them: every step leaves `tables` *)
(* as it is.                                                                *)

\* Saved with the lines yielded so far dropped.
SavedWithoutOutput ==
    [body_content |-> body_content, pieces |-> pieces, idx |-> idx, token |-> token,
     rest |-> rest, line |-> line, matches |-> matches, mi |-> mi, result |-> result,
     out |-> <<>>, substitutions |-> substitutions, pc |-> pc]

\* The frame of the running generator: its argument, its locals and those
\* of the helper it is in, the lines it has yielded, and where it stands.
Saved ==
    [body_content |-> body_content, pieces |-> pieces, idx |-> idx, token |-> token,
     rest |-> rest, line |-> line, matches |-> matches, mi |-> mi, result |-> result,
     out |-> out, substitutions |-> substitutions, pc |-> pc]

\* The frame of a generator that to_mw(b) has just returned.
NewFrame(b) ==
    [body_content |-> b, pieces |-> <<>>, idx |-> 0, token |-> NoToken,
     rest |-> <<>>, line |-> <<>>, matches |-> <<>>, mi |-> 0, result |-> <<>>,
     out |-> <<>>, substitutions |-> 0, pc |-> "start"]

TwoGenInit ==
    /\ body_content \in GenBodies
    /\ pieces = <<>>
    /\ idx = 0
    /\ token = NoToken
    /\ rest = <<>>
    /\ line = <<>>
    /\ matches = <<>>
    /\ mi = 0
    /\ result = <<>>
    /\ out = <<>>
    /\ substitutions = 0
    /\ pc = "start"
    /\ suspended \in {NewFrame(b) : b \in GenBodies}
    /\ running = 1
    /\ tables = RuleTables
    /\ FilterIdle
    /\ SitemapIdle
    /\ ReadIdle

\* Control passes to the other generator.
Switch ==
    /\ running \in {1, 2}
    /\ suspended' = Saved
    /\ running' = 3 - running
    /\ body_content' = suspended.body_content
    /\ pieces' = suspended.pieces
    /\ idx' = suspended.idx
    /\ token' = suspended.token
    /\ rest' = suspended.rest
    /\ line' = suspended.line
    /\ matches' = suspended.matches
    /\ mi' = suspended.mi
    /\ result' = suspended.result
    /\ out' = suspended.out
    /\ substitutions' = suspended.substitutions
    /\ pc' = suspended.pc
    /\ UNCHANGED tables

TwoGenNext ==
    \/ (SplitBody /\ UNCHANGED <<fvars, svars, gvars, rvars>>)
    \/ (LineStart /\ UNCHANGED <<fvars, svars, gvars, rvars>>)
    \/ (FindSpans /\ UNCHANGED <<fvars, svars, gvars, rvars>>)
    \/ (SkipMismatch /\ UNCHANGED <<fvars, svars, gvars, rvars>>)
    \/ (SkipUnknown /\ UNCHANGED <<fvars, svars, gvars, rvars>>)
    \/ (Substitute /\ UNCHANGED <<fvars, svars, gvars, rvars>>)
    \/ (SubstituteRaises /\ UNCHANGED <<fvars, svars, gvars, rvars>>)
    \/ (InnerReturn /\ UNCHANGED <<fvars, svars, gvars, rvars>>)
    \/ (Yield /\ UNCHANGED <<fvars, svars, gvars, rvars>>)
    \/ (Exhausted /\ UNCHANGED <<fvars, svars, gvars, rvars>>)
    \/ (Switch /\ UNCHANGED <<fvars, svars, rvars>>)

TwoGenSpec == TwoGenInit /\ [][TwoGenNext]_vars

\* The lines to_mw yields for the pieces ps when nothing else runs: those of
\* the pieces before the first one on which a helper raises.
RECURSIVE LinesAlone(_)
LinesAlone(ps) ==
    IF ps = <<>> THEN <<>>
    ELSE LET r == to_mw_line(Head(ps)) IN
         IF r.ok THEN <<r.line>> \o LinesAlone(Tail(ps)) ELSE <<>>

\* How to_mw(b) ends when nothing else runs, and what it has yielded then.
Alone(b) ==
    LET ps == Split(b, "\n") IN
    [out |-> LinesAlone(ps),
     pc |-> IF \E i \in 1..Len(ps) : ~to_mw_line(ps[i]).ok THEN "raised" ELSE "done"]

\* A generator consumed on its own ends as Alone says.
AloneIsTheSingleRun ==
    Terminal => (out = Alone(body_content).out /\ pc = Alone(body_content).pc)

\* The frame f is on the way of the generator run on its own: what it has
\* yielded is the start of the lines of Alone, and all of them at the end.
OnItsOwnWay(f) ==
    LET a == Alone(f.body_content) IN
    /\ Len(f.out) <= Len(a.out)
    /\ f.out = Take(a.out, Len(f.out))
    /\ f.pc \in {"done", "raised"} => (f.out = a.out /\ f.pc = a.pc)

-----------------------------------------------------------------------------
(* filter_most_recent (src/read_xml.py).  The mapping `pages` is a          *)
(* sequence of <<key, record>> in the dict's iteration order, as            *)
(* retrieve_all_pages builds it: pages[page['id']] = page.                  *)

MaxPages == 3

Titles == {<<"A">>, <<"B">>}

CreationDates == {<<"c", "1">>, <<"c", "2">>}

\* A lastModificationDate: the text up to the seconds, abstracted to a
\* number that orders it, and the digits behind the point.
ModificationDates ==
    {[stamp |-> 1, frac |-> <<"5">>], [stamp |-> 1, frac |-> <<"5", "0">>],
     [stamp |-> 2, frac |-> <<"0", "6">>]}

\* A page record without its id: the fields filter_most_recent reads.
RecordData ==
    [title : Titles, creationDate : CreationDates, lastModificationDate : ModificationDates]

\* The directive %f takes one to six digits.
FracDigits == 6

RECURSIVE Pow10(_)
Pow10(n) == IF n = 0 THEN 1 ELSE 10 * Pow10(n - 1)

RECURSIVE DigitsValue(_)
DigitsValue(ds) ==
    IF ds = <<>> THEN 0 ELSE 10 * DigitsValue(Take(ds, Len(ds) - 1)) + DigitValue(ds[Len(ds)])

\* datetime.strptime(text, "%Y-%m-%d %H:%M:%S.%f"), as microseconds: the
\* digits of the fraction are left-aligned (".5" is 500000 microseconds).
Strptime(d) ==
    d.stamp * Pow10(FracDigits) + DigitsValue(d.frac) * Pow10(FracDigits - Len(d.frac))

\* Line 57: "{}#{}".format(values['title'], values['creationDate']).
Identifier(values) == values.title \o <<"#">> \o values.creationDate

\* OtherIsOlder with the comparison of line 71 turned round.
OtherIsNewer(other, values) ==
    Strptime(values.lastModificationDate) < Strptime(other.lastModificationDate)

\* OtherIsOlder with equal dates counted as older: on a tie the page met
\* later would take the place.
OtherIsNotNewer(other, values) ==
    Strptime(other.lastModificationDate) <= Strptime(values.lastModificationDate)

\* Line 71: other_date < this_date.
OtherIsOlder(other, values) ==
    Strptime(other.lastModificationDate) < Strptime(values.lastModificationDate)

\* dict item assignment d[k] = v.
DictSet(d, k, v) == [x \in DOMAIN d \cup {k} |-> IF x = k THEN v ELSE d[x]]

\* The mappings retrieve_all_pages can return: the keys are distinct and
\* each is the id of its record.  Ids are compared for equality only; the
\* i-th page of the iteration order has id i.
PageMappings ==
    {[i \in 1..Len(ds) |->
        <<i, [id |-> i, title |-> ds[i].title, creationDate |-> ds[i].creationDate,
              lastModificationDate |-> ds[i].lastModificationDate]>>] :
        ds \in UNION {[1..n -> RecordData] : n \in 0..MaxPages}}

ToMwIdle ==
    /\ body_content = <<>>
    /\ pieces = <<>>
    /\ idx = 0
    /\ token = NoToken
    /\ rest = <<>>
    /\ line = <<>>
    /\ matches = <<>>
    /\ mi = 0
    /\ result = <<>>
    /\ out = <<>>
    /\ substitutions = 0
    /\ pc = "idle"

FilterInit ==
    /\ pages \in PageMappings
    /\ recent_pages = <<>>
    /\ fi = 1
    /\ filtered = <<>>
    /\ fpc = "loop"
    /\ ToMwIdle
    /\ SitemapIdle
    /\ GenIdle
    /\ ReadIdle

FilterCurrent == pages[fi][2]

InFilterLoop == fpc = "loop" /\ fi <= Len(pages)

\* Lines 61-62: no page with this identifier yet.
FilterFirst ==
    /\ InFilterLoop
    /\ Identifier(FilterCurrent) \notin DOMAIN recent_pages
    /\ recent_pages' = DictSet(recent_pages, Identifier(FilterCurrent), FilterCurrent)
    /\ fi' = fi + 1
    /\ UNCHANGED <<pages, filtered, fpc>>

\* Lines 66-72, the test of line 71 true: this page takes the place.
FilterNewer ==
    /\ InFilterLoop
    /\ Identifier(FilterCurrent) \in DOMAIN recent_pages
    /\ OtherIsOlder(recent_pages[Identifier(FilterCurrent)], FilterCurrent)
    /\ recent_pages' = DictSet(recent_pages, Identifier(FilterCurrent), FilterCurrent)
    /\ fi' = fi + 1
    /\ UNCHANGED <<pages, filtered, fpc>>

\* Lines 66-71, the test of line 71 false: the other page stays.
FilterNotNewer ==
    /\ InFilterLoop
    /\ Identifier(FilterCurrent) \in DOMAIN recent_pages
    /\ ~OtherIsOlder(recent_pages[Identifier(FilterCurrent)], FilterCurrent)
    /\ fi' = fi + 1
    /\ UNCHANGED <<pages, recent_pages, filtered, fpc>>

\* Line 75: the ids of the records kept.
RecentIds(rp) == {rp[x].id : x \in DOMAIN rp}

\* The dict comprehension of line 77: the items whose key is in ids, in order.
RECURSIVE KeepKeys(_, _)
KeepKeys(ps, ids) ==
    IF ps = <<>> THEN <<>>
    ELSE (IF Head(ps)[1] \in ids THEN <<Head(ps)>> ELSE <<>>) \o KeepKeys(Tail(ps), ids)

\* Lines 75-79: the pages whose key is among the recent ids are returned.
FilterReturn ==
    /\ fpc = "loop"
    /\ fi > Len(pages)
    /\ filtered' = KeepKeys(pages, RecentIds(recent_pages))
    /\ fpc' = "done"
    /\ UNCHANGED <<pages, recent_pages, fi>>

FilterNext ==
    \/ (FilterFirst /\ UNCHANGED <<mwvars, svars, gvars, rvars>>)
    \/ (FilterNewer /\ UNCHANGED <<mwvars, svars, gvars, rvars>>)
    \/ (FilterNotNewer /\ UNCHANGED <<mwvars, svars, gvars, rvars>>)
    \/ (FilterReturn /\ UNCHANGED <<mwvars, svars, gvars, rvars>>)

FilterSpec == FilterInit /\ [][FilterNext]_vars

-----------------------------------------------------------------------------
(* Properties of filter_most_recent.                                       *)

PageAt(i) == pages[i][2]

Kept(i) == \E k \in 1..Len(filtered) : filtered[k][1] = pages[i][1]

\* The positions of the pages with the title and creationDate of page i.
GroupOf(i) ==
    {j \in 1..Len(pages) :
        /\ PageAt(j).title = PageAt(i).title
        /\ PageAt(j).creationDate = PageAt(i).creationDate}

ModifiedAt(i) == Strptime(PageAt(i).lastModificationDate)

IsLatest(i) == \A j \in GroupOf(i) : ModifiedAt(j) <= ModifiedAt(i)

SameDateText(i, j) == PageAt(i).lastModificationDate = PageAt(j).lastModificationDate

\* The pairs i before j of one group that carry the same lastModificationDate.
TiedPairs ==
    {p \in (1..Len(pages)) \X (1..Len(pages)) :
        p[1] < p[2] /\ p[2] \in GroupOf(p[1]) /\ SameDateText(p[1], p[2])}

\* C11 as stated: when two pages with the same title and creationDate have
\* exactly the same lastModificationDate, which is the latest of their group,
\* the page kept is the one met later in the iteration order.
C11_LaterOfTieKept ==
    fpc = "done" =>
        \A p \in TiedPairs :
            IsLatest(p[1]) => ~Kept(p[1])

\* C11 amended: of two pages with the same title and creationDate whose
\* lastModificationDate is the same moment, the one met later in the iteration
\* order is never kept, and the first page of the group to carry the latest
\* date is the page kept.
C11_EarlierOfTieKept ==
    fpc = "done" =>
        \A i \in 1..Len(pages) :
            /\ \A j \in GroupOf(i) : (i < j /\ ModifiedAt(i) = ModifiedAt(j)) => ~Kept(j)
            /\ (IsLatest(i) /\ \A k \in GroupOf(i) : k < i => ModifiedAt(k) < ModifiedAt(i))
                   => Kept(i)

\* C11 witness: filter_most_recent has returned for a mapping in which two
\* pages of one group carry the same latest lastModificationDate text; the
\* first of them is kept and the second removed.
C11_Witness ==
    /\ fpc = "done"
    /\ \E p \in TiedPairs :
        IsLatest(p[1]) /\ Kept(p[1]) /\ ~Kept(p[2])

-----------------------------------------------------------------------------
(* filter_most_recent on records of any text.  Nothing in read_xml.py       *)
(* looks at what a title or a creationDate is made of: both are the text of *)
(* a property element, and line 57 puts a "#" between them.                 *)

\* The mappings whose keys are the ids of their records and whose titles and
\* creationDates are texts that may hold the "#" of line 57.
AnyPageMappings ==
    {[i \in 1..Len(ds) |->
        <<i, [id |-> i, title |-> ds[i].title, creationDate |-> ds[i].creationDate,
              lastModificationDate |-> ds[i].lastModificationDate]>>] :
        ds \in UNION {[1..n -> [title : {<<"A">>, <<"A", "#", "c">>},
                                creationDate : {<<"1">>, <<"c", "#", "1">>},
                                lastModificationDate : ModificationDates]] :
                         n \in 0..MaxPages}}

AnyFilterInit ==
    /\ pages \in AnyPageMappings
    /\ recent_pages = <<>>
    /\ fi = 1
    /\ filtered = <<>>
    /\ fpc = "loop"
    /\ ToMwIdle
    /\ SitemapIdle
    /\ GenIdle
    /\ ReadIdle

AnyFilterSpec == AnyFilterInit /\ [][FilterNext]_vars

\* Every item of the result is an item of the input, key and record, and no
\* key comes twice.
IsSubMapping ==
    /\ \A k \in 1..Len(filtered) : \E i \in 1..Len(pages) : filtered[k] = pages[i]
    /\ \A k, l \in 1..Len(filtered) : filtered[k][1] = filtered[l][1] => k = l

\* The pages with the identifier of line 57 that page i has.
SameIdentifier(i) ==
    {j \in 1..Len(pages) : Identifier(PageAt(j)) = Identifier(PageAt(i))}

\* C21: for a mapping whose keys are the ids of its records, no step of
\* filter_most_recent changes the mapping it was given, and what it returns
\* is a part of that mapping, each key with the record it had, holding
\* exactly one page of each (title, creationDate) pair of the input.
C21_SubMappingOnePerPair ==
    /\ [][pages' = pages]_vars
    /\ [](fpc = "done" =>
            /\ IsSubMapping
            /\ \A i \in 1..Len(pages) : Cardinality({j \in GroupOf(i) : Kept(j)}) = 1)

\* What holds of C21 for records of any text: the input is left as it was,
\* the result is a part of it, and one page is kept of each identifier (of
\* the pairs that line 57 gives the same text, one page together).
SubMappingOnePerIdentifier ==
    /\ [][pages' = pages]_vars
    /\ [](fpc = "done" =>
            /\ IsSubMapping
            /\ \A i \in 1..Len(pages) : Cardinality({j \in SameIdentifier(i) : Kept(j)}) = 1)

\* Two pages that differ in title and creationDate have one identifier, and
\* only the first of them is returned.
PairsCollide ==
    /\ fpc = "done"
    /\ \E i, j \in 1..Len(pages) :
        /\ i < j
        /\ j \notin GroupOf(i)
        /\ j \in SameIdentifier(i)
        /\ Kept(i) /\ ~Kept(j)

\* With a creationDate that holds no "#" (the dates of FilterSpec) the pairs
\* and the identifiers are the same groups, and C21 holds as stated.
OnePerPairOnDates ==
    /\ [][pages' = pages]_vars
    /\ [](fpc = "done" =>
            /\ IsSubMapping
            /\ \A i \in 1..Len(pages) :
                /\ SameIdentifier(i) = GroupOf(i)
                /\ Cardinality({j \in GroupOf(i) : Kept(j)}) = 1)

-----------------------------------------------------------------------------
(* build_sitemap (src/xml2mw/sitemap.py).  The mapping is a sequence of     *)
(* <<key, record>> in the dict's iteration order.  A record has the fields  *)
(* build_sitemap reads: 'title', 'parent' (the empty text when the page has *)
(* none) and 'children' (the ids joined by commas, the empty text when the  *)
(* page has none).  Every page of the inputs has a title.                   *)

\* Python's None, as a value a page record can be compared with.
None == [none |-> TRUE]

\* dict.get(key): the value stored under the key, or None.
Get(d, key) ==
    IF \E i \in 1..Len(d) : d[i][1] = key
    THEN d[CHOOSE i \in 1..Len(d) : d[i][1] = key][2]
    ELSE None

IdChars == <<"1", "2", "3", "4", "5", "6", "7", "8", "9">>

\* The id of the i-th page, as text.
IdText(i) == <<IdChars[i]>>

TitleChars == <<"A", "B">>

\* The title of the i-th page: pages two apart share their title.
TitleOf(i) == <<TitleChars[((i - 1) % Len(TitleChars)) + 1]>>

\* The pages whose 'parent' is p under the parent assignment par, in order.
RECURSIVE ChildrenUnder(_, _, _)
ChildrenUnder(par, p, from) ==
    IF from > Len(par) THEN <<>>
    ELSE (IF par[from] = p THEN <<from>> ELSE <<>>) \o ChildrenUnder(par, p, from + 1)

\* The children lists that agree with par.
ListedByParent(par) == [p \in 1..Len(par) |-> ChildrenUnder(par, p, 1)]

Without(s, k) == Take(s, k - 1) \o Drop(s, k)

\* The children lists ch with one change e made, where it applies: none, the
\* entry at a position of a page's list left out, or an id more at the end
\* of a page's list, the id of a page or one more than the number of pages
\* (an id that no page has).
Edited(ch, e) ==
    IF e.kind = "none" \/ e.page > Len(ch) THEN ch
    ELSE IF e.kind = "drop"
    THEN (IF e.arg <= Len(ch[e.page]) THEN [ch EXCEPT ![e.page] = Without(@, e.arg)] ELSE ch)
    ELSE (IF e.arg <= Len(ch) + 1 THEN [ch EXCEPT ![e.page] = Append(@, e.arg)] ELSE ch)

\* The mapping of Len(par) pages: page i has parent par[i] (0: none) and
\* the children ch[i].
PagesOf(par, ch) ==
    [i \in 1..Len(par) |->
        <<IdText(i),
          [id |-> IdText(i), title |-> TitleOf(i),
           parent |-> IF par[i] = 0 THEN <<>> ELSE IdText(par[i]),
           children |-> Join([k \in 1..Len(ch[i]) |-> IdText(ch[i][k])], ",")]>>]

\* Parent assignments of up to MaxPages pages: no parent, a page of the
\* mapping (itself included), or an id that no page has.
ParentAssignments == UNION {[1..n -> 0..(n + 1)] : n \in 0..MaxPages}

\* The mappings build_sitemap is run on: parent and children references
\* that agree, and those with one entry of a children list off.
SitemapInputs ==
    {PagesOf(par, Edited(ListedByParent(par), e)) :
        par \in ParentAssignments,
        e \in {[kind |-> "none", page |-> 0, arg |-> 0]}
               \cup [kind : {"drop", "add"}, page : 1..MaxPages, arg : 1..(MaxPages + 1)]}

\* sys.getrecursionlimit(), scaled to the inputs: deeper than any chain of
\* distinct pages.
RecursionLimit == MaxPages + 2

\* Node('/') of line 23.
RootNode == [name |-> <<"/">>, parent |-> 0, page |-> <<>>]

\* Node(page['title'], parent=parent) of lines 16-17; `parent` is the
\* position of the parent node in nodes.  The field `page` is the id of the
\* page the node was made from: it tells nodes of equal name apart.
NewNode(page, parent) == [name |-> page.title, parent |-> parent, page |-> page.id]

\* A call of _create_node past line 17: its page, its node `current`, the
\* list of line 19 and the position of the for loop in it.
Frame(page, current) ==
    [page |-> page, current |-> current, child_ids |-> Split(page.children, ","), ci |-> 1]

RECURSIVE SelectValues(_, _)
SelectValues(d, keep) ==
    IF d = <<>> THEN <<>>
    ELSE (IF Head(d)[1] \in keep THEN <<Head(d)[2]>> ELSE <<>>) \o SelectValues(Tail(d), keep)

\* Toplevel with every page taken as a top level page.
ToplevelAll(ps) == SelectValues(ps, {ps[i][1] : i \in 1..Len(ps)})

\* Line 24: the pages for which v.get('parent') is false, in order.
Toplevel(ps) == SelectValues(ps, {ps[i][1] : i \in {j \in 1..Len(ps) : ps[j][2].parent = <<>>}})

SitemapInit ==
    /\ all_pages \in SitemapInputs
    /\ toplevel = <<>>
    /\ ti = 0
    /\ stack = <<>>
    /\ nodes = <<>>
    /\ spc = "start"
    /\ ToMwIdle
    /\ FilterIdle
    /\ GenIdle
    /\ ReadIdle

\* Lines 23-24.
BuildStart ==
    /\ spc = "start"
    /\ nodes' = <<RootNode>>
    /\ toplevel' = Toplevel(all_pages)
    /\ ti' = 1
    /\ spc' = "toplevel"
    /\ UNCHANGED <<all_pages, stack>>

\* Lines 26-27 and 14-19: the next top level page gets its node under the root.
TopCall ==
    /\ spc = "toplevel"
    /\ stack = <<>>
    /\ ti <= Len(toplevel)
    /\ nodes' = Append(nodes, NewNode(toplevel[ti], 1))
    /\ stack' = <<Frame(toplevel[ti], Len(nodes) + 1)>>
    /\ ti' = ti + 1
    /\ UNCHANGED <<all_pages, toplevel, spc>>

InCall == spc = "toplevel" /\ stack # <<>>

Top == stack[Len(stack)]

InChildLoop == InCall /\ Top.ci <= Len(Top.child_ids)

\* Line 20.
child_page == Get(all_pages, Top.child_ids[Top.ci])

\* Lines 19-21 and 14-19: the child id is the key of a page, which gets its
\* node under `current`.
ChildCall ==
    /\ InChildLoop
    /\ child_page # None
    /\ Len(stack) < RecursionLimit
    /\ nodes' = Append(nodes, NewNode(child_page, Top.current))
    /\ stack' = Append([stack EXCEPT ![Len(stack)].ci = @ + 1], Frame(child_page, Len(nodes) + 1))
    /\ UNCHANGED <<all_pages, toplevel, ti, spc>>

\* Lines 19-21 and 14: the child id is no key, the call returns at once.
ChildMissing ==
    /\ InChildLoop
    /\ child_page = None
    /\ stack' = [stack EXCEPT ![Len(stack)].ci = @ + 1]
    /\ UNCHANGED <<all_pages, toplevel, ti, nodes, spc>>

\* Line 21 with the recursion limit reached: RecursionError.
RecursionOverflow ==
    /\ InChildLoop
    /\ child_page # None
    /\ Len(stack) >= RecursionLimit
    /\ spc' = "raised"
    /\ UNCHANGED <<all_pages, toplevel, ti, stack, nodes>>

\* The for loop of line 19 is through: _create_node returns.
NodeReturn ==
    /\ InCall
    /\ Top.ci > Len(Top.child_ids)
    /\ stack' = Take(stack, Len(stack) - 1)
    /\ UNCHANGED <<all_pages, toplevel, ti, nodes, spc>>

\* Line 29.
BuildReturn ==
    /\ spc = "toplevel"
    /\ stack = <<>>
    /\ ti > Len(toplevel)
    /\ spc' = "done"
    /\ UNCHANGED <<all_pages, toplevel, ti, stack, nodes>>

SitemapNext ==
    \/ (BuildStart /\ UNCHANGED <<mwvars, fvars, gvars, rvars>>)
    \/ (TopCall /\ UNCHANGED <<mwvars, fvars, gvars, rvars>>)
    \/ (ChildCall /\ UNCHANGED <<mwvars, fvars, gvars, rvars>>)
    \/ (ChildMissing /\ UNCHANGED <<mwvars, fvars, gvars, rvars>>)
    \/ (RecursionOverflow /\ UNCHANGED <<mwvars, fvars, gvars, rvars>>)
    \/ (NodeReturn /\ UNCHANGED <<mwvars, fvars, gvars, rvars>>)
    \/ (BuildReturn /\ UNCHANGED <<mwvars, fvars, gvars, rvars>>)

SitemapSpec == SitemapInit /\ [][SitemapNext]_vars

-----------------------------------------------------------------------------
(* Properties of build_sitemap.                                            *)

PageIds == {all_pages[i][1] : i \in 1..Len(all_pages)}

PageOf(id) == Get(all_pages, id)

\* The ids a page lists as its children: none when the text is empty.
ChildIdsOf(id) ==
    IF PageOf(id).children = <<>> THEN <<>> ELSE Split(PageOf(id).children, ",")

\* The pages met from page id by following 'parent' for up to n steps.
RECURSIVE AncestorsOf(_, _)
AncestorsOf(id, n) ==
    IF n = 0 \/ id \notin PageIds THEN {}
    ELSE IF PageOf(id).parent = <<>> THEN {}
    ELSE {PageOf(id).parent} \cup AncestorsOf(PageOf(id).parent, n - 1)

\* The parent and children references of the mapping form a forest: a page
\* is listed among the children of another, once, exactly when its 'parent'
\* names that page, every id listed is a page, and no page is its own
\* ancestor.
ConsistentForest ==
    \A id \in PageIds :
        LET cs == ChildIdsOf(id) IN
        /\ \A k \in 1..Len(cs) : cs[k] \in PageIds /\ PageOf(cs[k]).parent = id
        /\ \A k, l \in 1..Len(cs) : cs[k] = cs[l] => k = l
        /\ PageOf(id).parent # <<>> =>
              /\ PageOf(id).parent \in PageIds
              /\ \E k \in 1..Len(ChildIdsOf(PageOf(id).parent)) :
                    ChildIdsOf(PageOf(id).parent)[k] = id
        /\ id \notin AncestorsOf(id, Len(all_pages))

\* The positions in nodes of the nodes made from page id.
NodesOf(id) == {k \in 2..Len(nodes) : nodes[k].page = id}

\* C12: on a consistent forest build_sitemap returns; the first node is the
\* root '/', the nodes directly under it are those of the pages without a
\* parent, every page has exactly one node, which bears its title and hangs
\* under the node of its parent, and the root has as many descendants as
\* there are pages (none when there is no page).
C12_ForestBecomesTree ==
    ConsistentForest =>
        /\ spc # "raised"
        /\ spc = "done" =>
            /\ nodes[1] = RootNode
            /\ \A k \in 2..Len(nodes) : nodes[k].parent \in 1..(k - 1)
            /\ {nodes[k].page : k \in {j \in 2..Len(nodes) : nodes[j].parent = 1}}
                   = {id \in PageIds : PageOf(id).parent = <<>>}
            /\ \A id \in PageIds :
                /\ Cardinality(NodesOf(id)) = 1
                /\ \A k \in NodesOf(id) :
                    /\ nodes[k].name = PageOf(id).title
                    /\ nodes[nodes[k].parent].page = PageOf(id).parent
            /\ Len(nodes) - 1 = Len(all_pages)
            /\ (all_pages = <<>> => nodes = <<RootNode>>)

\* C12 witness: build_sitemap has returned for a consistent forest of
\* MaxPages pages in which one page lists two children, or a child has a
\* child of its own.
C12_Witness ==
    /\ spc = "done"
    /\ ConsistentForest
    /\ Len(all_pages) = MaxPages
    /\ \/ \E id \in PageIds : Len(ChildIdsOf(id)) = 2
       \/ \E k \in 2..Len(nodes) : nodes[k].parent > 1 /\ nodes[nodes[k].parent].parent > 1

\* C18: build_sitemap returns a tree for every mapping of titled pages, one
\* whose 'children' references form a cycle included: the recursion of
\* _create_node never goes on until RecursionError.
C18_AlwaysReturnsTree == spc # "raised"

\* The recursion runs out only inside a cycle of 'children' references: a
\* page is then in the chain of calls twice.
RaisedOnlyInCycle ==
    spc = "raised" =>
        \E i, j \in 1..Len(stack) : i < j /\ stack[i].page.id = stack[j].page.id

\* C19: every page of the mapping has a node in the tree build_sitemap
\* returns, also a page whose 'parent' names no page of the mapping or a
\* page that does not list it among its 'children'.
C19_EveryPageHasNode ==
    spc = "done" => \A id \in PageIds : NodesOf(id) # {}

\* A page without a node has a 'parent' and is listed by no page that has a
\* node.
LeftOutOnlyIfUnlisted ==
    spc = "done" =>
        \A id \in PageIds :
            NodesOf(id) = {} =>
                /\ PageOf(id).parent # <<>>
                /\ \A p \in PageIds :
                    NodesOf(p) # {} => \A k \in 1..Len(ChildIdsOf(p)) : ChildIdsOf(p)[k] # id

-----------------------------------------------------------------------------
(* read (src/read_xml.py): parse_xml, retrieve_all_pages,                   *)
(* filter_most_recent and denormalize inside one try, a bare except, and    *)
(* `return pages`.  The file is abstracted to what the four steps make of   *)
(* it: whether it can be parsed, the Page elements parse_page_data returns  *)
(* data for, and for each whether the BodyContent objects it names are      *)
(* there with a body.                                                       *)

\* A lastModificationDate without digits after the point: strptime raises
\* ValueError for it.
BadDate == [stamp |-> 1, frac |-> <<>>]

DateParses(d) == Len(d.frac) \in 1..FracDigits

\* A local that has not been assigned: a value no mapping of pages equals.
Unbound == <<<<0, [unbound |-> TRUE]>>>>

\* The id of an element without an id tag; the ids of the others count from 1.
NoId == 0

\* A Page element without an id tag.
NoIdElement ==
    [id |-> NoId, title |-> <<"A">>, creationDate |-> <<"c", "1">>,
     lastModificationDate |-> [stamp |-> 1, frac |-> <<"5">>], body_found |-> FALSE]

\* What the Page elements can hold, the id apart.
ElementData ==
    [title : Titles, creationDate : {<<"c", "1">>},
     lastModificationDate : {[stamp |-> 1, frac |-> <<"5">>], [stamp |-> 2, frac |-> <<"0", "6">>], BadDate},
     body_found : BOOLEAN]

\* The Page elements of a file, in document order: the i-th has id i, or none.
ElementLists ==
    {[i \in 1..Len(ds) |->
        IF ds[i] = NoIdElement THEN NoIdElement
        ELSE [id |-> i, title |-> ds[i].title, creationDate |-> ds[i].creationDate,
              lastModificationDate |-> ds[i].lastModificationDate,
              body_found |-> ds[i].body_found]] :
        ds \in UNION {[1..n -> ElementData \cup {NoIdElement}] : n \in 0..MaxPages}}

\* The files read is run on.
XmlFiles ==
    {[readable |-> FALSE, elements |-> <<>>]}
    \cup {[readable |-> TRUE, elements |-> es] : es \in ElementLists}

\* retrieve_all_pages, lines 142-147: pages[page['id']] = page for every
\* element; KeyError when an element has no id.
RetrieveRaisesOn(es) == \E i \in 1..Len(es) : es[i].id = NoId

Retrieved(es) == [i \in 1..Len(es) |-> <<es[i].id, es[i]>>]

\* The for loop of filter_most_recent, lines 56-72, from page k on:
\* [ok, recent]; ok is FALSE when line 68 or 69 raises.
RECURSIVE FilterLoop(_, _, _)
FilterLoop(ps, k, rp) ==
    IF k > Len(ps) THEN [ok |-> TRUE, recent |-> rp]
    ELSE LET values == ps[k][2]
             identifier == Identifier(values)
         IN  IF identifier \notin DOMAIN rp
             THEN FilterLoop(ps, k + 1, DictSet(rp, identifier, values))
             ELSE IF \/ ~DateParses(values.lastModificationDate)
                     \/ ~DateParses(rp[identifier].lastModificationDate)
             THEN [ok |-> FALSE, recent |-> rp]
             ELSE IF OtherIsOlder(rp[identifier], values)
             THEN FilterLoop(ps, k + 1, DictSet(rp, identifier, values))
             ELSE FilterLoop(ps, k + 1, rp)

\* filter_most_recent as a whole: [ok, pages].
filter_most_recent(ps) ==
    LET r == FilterLoop(ps, 1, <<>>) IN
    [ok |-> r.ok, pages |-> IF r.ok THEN KeepKeys(ps, RecentIds(r.recent)) ELSE <<>>]

\* Line 45: the page gets its 'body' entry.
WithBody(page) == page @@ [body |-> <<"t">>]

ReadInit ==
    /\ xml \in XmlFiles
    /\ root = Unbound
    /\ read_pages = Unbound
    /\ di = 0
    /\ returned = Unbound
    /\ rpc = "parse_xml"
    /\ ToMwIdle
    /\ FilterIdle
    /\ SitemapIdle
    /\ GenIdle

\* Line 29.
ParseXml ==
    /\ rpc = "parse_xml"
    /\ xml.readable
    /\ root' = xml.elements
    /\ rpc' = "retrieve_all_pages"
    /\ UNCHANGED <<xml, read_pages, di, returned>>

\* Line 29 raises (no file, no XML).
ParseXmlRaises ==
    /\ rpc = "parse_xml"
    /\ ~xml.readable
    /\ rpc' = "except"
    /\ UNCHANGED <<xml, root, read_pages, di, returned>>

\* Line 30.
RetrieveAllPages ==
    /\ rpc = "retrieve_all_pages"
    /\ ~RetrieveRaisesOn(root)
    /\ read_pages' = Retrieved(root)
    /\ rpc' = "filter_most_recent"
    /\ UNCHANGED <<xml, root, di, returned>>

\* Line 30 raises: `pages` of read is not assigned.
RetrieveAllPagesRaises ==
    /\ rpc = "retrieve_all_pages"
    /\ RetrieveRaisesOn(root)
    /\ rpc' = "except"
    /\ UNCHANGED <<xml, root, read_pages, di, returned>>

\* Line 31.
FilterMostRecent ==
    /\ rpc = "filter_most_recent"
    /\ filter_most_recent(read_pages).ok
    /\ read_pages' = filter_most_recent(read_pages).pages
    /\ di' = 1
    /\ rpc' = "denormalize"
    /\ UNCHANGED <<xml, root, returned>>

\* Line 31 raises: `pages` of read stays the mapping of line 30.
FilterMostRecentRaises ==
    /\ rpc = "filter_most_recent"
    /\ ~filter_most_recent(read_pages).ok
    /\ rpc' = "except"
    /\ UNCHANGED <<xml, root, read_pages, di, returned>>

\* Lines 43-45 for one page: the page's dict, which the mapping of read
\* holds too, gets its 'body'.
DenormalizePage ==
    /\ rpc = "denormalize"
    /\ di <= Len(read_pages)
    /\ read_pages[di][2].body_found
    /\ read_pages' = [read_pages EXCEPT ![di] = <<@[1], WithBody(@[2])>>]
    /\ di' = di + 1
    /\ UNCHANGED <<xml, root, returned, rpc>>

\* Line 45 raises (RetrievalError of _get_body_content, or KeyError): the
\* pages before this one keep their 'body'.
DenormalizeRaises ==
    /\ rpc = "denormalize"
    /\ di <= Len(read_pages)
    /\ ~read_pages[di][2].body_found
    /\ rpc' = "except"
    /\ UNCHANGED <<xml, root, read_pages, di, returned>>

\* Lines 46 and 32: denormalize returns the mapping it was given.
DenormalizeReturn ==
    /\ rpc = "denormalize"
    /\ di > Len(read_pages)
    /\ rpc' = "return"
    /\ UNCHANGED <<xml, root, read_pages, di, returned>>

\* Lines 33-34: whatever was raised is caught, a message is printed.
Except ==
    /\ rpc = "except"
    /\ rpc' = "return"
    /\ UNCHANGED <<xml, root, read_pages, di, returned>>

\* Line 36 with `pages` assigned.
ReadReturn ==
    /\ rpc = "return"
    /\ read_pages # Unbound
    /\ returned' = read_pages
    /\ rpc' = "returned"
    /\ UNCHANGED <<xml, root, read_pages, di>>

\* Line 36 with `pages` not assigned: UnboundLocalError leaves read.
ReadReturnUnbound ==
    /\ rpc = "return"
    /\ read_pages = Unbound
    /\ rpc' = "error"
    /\ UNCHANGED <<xml, root, read_pages, di, returned>>

ReadNext ==
    \/ (ParseXml /\ UNCHANGED <<mwvars, fvars, svars, gvars>>)
    \/ (ParseXmlRaises /\ UNCHANGED <<mwvars, fvars, svars, gvars>>)
    \/ (RetrieveAllPages /\ UNCHANGED <<mwvars, fvars, svars, gvars>>)
    \/ (RetrieveAllPagesRaises /\ UNCHANGED <<mwvars, fvars, svars, gvars>>)
    \/ (FilterMostRecent /\ UNCHANGED <<mwvars, fvars, svars, gvars>>)
    \/ (FilterMostRecentRaises /\ UNCHANGED <<mwvars, fvars, svars, gvars>>)
    \/ (DenormalizePage /\ UNCHANGED <<mwvars, fvars, svars, gvars>>)
    \/ (DenormalizeRaises /\ UNCHANGED <<mwvars, fvars, svars, gvars>>)
    \/ (DenormalizeReturn /\ UNCHANGED <<mwvars, fvars, svars, gvars>>)
    \/ (Except /\ UNCHANGED <<mwvars, fvars, svars, gvars>>)
    \/ (ReadReturn /\ UNCHANGED <<mwvars, fvars, svars, gvars>>)
    \/ (ReadReturnUnbound /\ UNCHANGED <<mwvars, fvars, svars, gvars>>)

ReadSpec == ReadInit /\ [][ReadNext]_vars

-----------------------------------------------------------------------------
(* Properties of read.                                                     *)

HasBody(page) == "body" \in DOMAIN page

\* C20: read returns a mapping in which every page has a 'body' entry, or it
\* ends in an error: it returns no mapping in which a page lacks 'body'.
C20_AllOrNothing ==
    rpc = "returned" => \A i \in 1..Len(returned) : HasBody(returned[i][2])

\* When no step raises, every page of the returned mapping has its 'body';
\* when parse_xml or retrieve_all_pages raises, read ends in an error.
ReadWhenNothingRaises ==
    /\ (rpc = "returned" /\ \A i \in 1..Len(returned) : returned[i][2].body_found
                         /\ filter_most_recent(Retrieved(root)).ok)
           => \A i \in 1..Len(returned) : HasBody(returned[i][2])
    /\ (rpc \in {"returned", "error"}) =>
           ((rpc = "error") <=> (~xml.readable \/ RetrieveRaisesOn(root)))

\* filter_most_recent as a whole is what its steps give.
FilterAsAWhole ==
    fpc = "done" =>
        /\ filter_most_recent(pages).ok
        /\ filtered = filter_most_recent(pages).pages

====
